---- MODULE Spec2Model ----
(***************************************************************************)
(* Model of audio_player.py: the AUDIO_PLAYER controller (begin, play,     *)
(* stop, volume_up, volume_down, set_volume), its streaming engines        *)
(* (_play8 / _play16, run in the caller or in a thread started by play),   *)
(* the wave reader's cursor, and the DAC / PWM outputs.                    *)
(*                                                                         *)
(* One engine iteration is four kinds of step: the loop head with the read *)
(* of the chunk (fstop test, readframes into self.framedata), the copy of  *)
(* self.framedata into the local array, the re-seek with the volume        *)
(* snapshot (setpos, self.volumes[self.volume]) and each output write.     *)
(* Within the first and the third step the statements touch different      *)
(* shared variables (fstop then the cursor; the cursor then volume), and   *)
(* whatever another context does to one of them commutes with the other    *)
(* statement, so every interleaving of the single statements ends in a     *)
(* state one of these steps reaches.  The busy-wait delay (custom_delay)   *)
(* and the period computation change no shared state and are not steps.    *)
(***************************************************************************)
EXTENDS Integers, Naturals, Sequences, FiniteSets, TLC

\* ------------------------------------------------------------------ bounds
\* buffersize is 2048 in the source (line 53); the model scales it down.
BufferSize == 2
\* the wave file has at most MaxChunks whole chunks and one more frame
MaxChunks == 2
\* number of controller calls (begin, play, stop, volume_*) in one session
MaxCalls == 4
\* number of execution contexts that can run a streaming engine at once
MaxEngines == 2
\* set_volume(v) is called with v up to VolSlack outside each end of 0 .. 12
VolSlack == 1

Engines == 1 .. MaxEngines
MaxFrames == MaxChunks * BufferSize + 1
\* arguments of set_volume: both ends of the range and the values beyond
VolumeInputs == ((0 - VolSlack) .. 0) \cup (12 .. (12 + VolSlack))

\* ------------------------------------------------------------ program data
\* the table with the divisors of levels 10 and 11 exchanged
volumes_swapped == <<49, 31, 21, 15, 11, 9, 7, 6, 5, 4, 2, 3, 1>>

\* self.volumes, the attenuation divisors of the 13 volume levels
volumes == <<49, 31, 21, 15, 11, 9, 7, 6, 5, 4, 3, 2, 1>>

\* Frame values of the file, by sample width in bytes: unsigned 8-bit
\* ('B') or signed 16-bit ('h') values, the extremes first.  The file holds
\* these values in turn, starting at the one numbered phase.
Samples8 == <<0, 255, 128, 1, 127, 254, 64>>
Samples16 == <<-32768, 32767, -1, 1, 0, 255, -129>>
\* frame rate the header of the wave file reports
FileRate == 8000

VARIABLES
    \* constructor arguments and the wave file given to the constructor
    pwm_mode, loop, threading, sampwidth, nframes, phase,
    \* fields of AUDIO_PLAYER
    ready, adatawidth, pwm_out, dac, total_frames, framerate, buffersize,
    volume, fstop, framedata,
    \* the wave reader's read cursor (audiofile._soundpos)
    soundpos,
    \* the streaming engines: program counter and locals of _play8/_play16
    pc, position, buf, divisor, idx,
    \* the hardware: DAC mode and circular buffer, last value written
    dacMode, dmaBuf, lastWrite,
    \* history of the session
    lastOp, lastArg, prevVolume, calls, err, played, firstRun, nWrites,
    nRead, stopReq, wAfter, snapLevel, wStale

cfgVars == <<pwm_mode, loop, threading, sampwidth, nframes, phase>>
ctlVars == <<ready, adatawidth, pwm_out, dac, total_frames, framerate, buffersize>>
engVars == <<pc, position, buf, divisor, idx>>
hwVars == <<dacMode, dmaBuf, lastWrite>>
callVars == <<lastOp, lastArg, prevVolume, calls>>
runVars == <<played, firstRun, nWrites, nRead, stopReq, wAfter, snapLevel, wStale>>
histVars == <<callVars, err, runVars>>
vars == <<cfgVars, ctlVars, volume, fstop, framedata, soundpos, engVars,
          hwVars, histVars>>

\* ---------------------------------------------------------------- helpers
Min(a, b) == IF a < b THEN a ELSE b

NoData == [start |-> 0, len |-> 0]

\* no sample written yet: the device, the value, the frame of the file it
\* was computed from and the volume level its divisor belongs to
NoWrite == [dev |-> "none", val |-> 0, frame |-> -1, level |-> 0]

\* pc values of an engine that is executing _play8/_play16
ActivePc == {"check", "copy", "setpos", "write"}
Active(e) == pc[e] \in ActivePc
ActiveEngines == {e \in Engines : Active(e)}

\* wave.readframes(n) at cursor c of a file of nf frames: the frames
\* actually returned, never more than are left in the data chunk
ReadFrames(c, n, nf) == [start |-> c, len |-> Min(n, nf - c)]

\* value of frame k of the file
FrameAt(k) ==
    IF sampwidth > 1 THEN Samples16[((k + phase) % Len(Samples16)) + 1]
    ELSE Samples8[((k + phase) % Len(Samples8)) + 1]

\* _play16 with the DAC divisor scaled by 8 instead of 16
Divisor16_eight(level, pwm) == volumes[level + 1] * (IF pwm THEN 128 ELSE 8)

\* _play16: the divisor after "volume *= 128 if self.pwm_out else 16"
Divisor16(level, pwm) == volumes[level + 1] * (IF pwm THEN 128 ELSE 16)
\* _play8: the divisor is the table entry
Divisor8(level) == volumes[level + 1]

\* _play16: value written for sample s (Python // floors, as \div does)
Sample16(s, d, pwm) == IF pwm THEN 128 + (s \div d) ELSE 2048 + (s \div d)
\* _play8: value written for sample s
Sample8(s, d) == s \div d

\* -------------------------------------------------------------------- Init
\* The fields __init__ sets whatever its arguments are (all but the volume
\* level), with no engine started and nothing written.
InitFields ==
    /\ ready = FALSE
    /\ adatawidth = 8
    /\ pwm_out = FALSE
    /\ dac = FALSE
    /\ total_frames = 0
    /\ framerate = 0
    /\ buffersize = BufferSize
    /\ fstop = TRUE
    /\ framedata = NoData
    /\ soundpos = 0
    /\ pc = [e \in Engines |-> "idle"]
    /\ position = [e \in Engines |-> 0]
    /\ buf = [e \in Engines |-> NoData]
    /\ divisor = [e \in Engines |-> 0]
    /\ idx = [e \in Engines |-> 0]
    /\ dacMode = "off"
    /\ dmaBuf = NoData
    /\ lastWrite = NoWrite
    /\ prevVolume = 10
    /\ err = "none"
    /\ played = FALSE
    /\ firstRun = [e \in Engines |-> FALSE]
    /\ nWrites = [e \in Engines |-> 0]
    /\ nRead = [e \in Engines |-> 0]
    /\ stopReq = [e \in Engines |-> "none"]
    /\ wAfter = [e \in Engines |-> 0]
    /\ snapLevel = [e \in Engines |-> 0]
    /\ wStale = [e \in Engines |-> FALSE]

\* State after AUDIO_PLAYER.__init__: nothing opened, volume 10, fstop set.
Init ==
    /\ pwm_mode \in BOOLEAN
    /\ loop \in BOOLEAN
    /\ threading \in BOOLEAN
    /\ sampwidth \in {1, 2}
    /\ nframes \in 0 .. MaxFrames
    /\ phase = 0
    /\ InitFields
    /\ volume = 10
    /\ lastOp = "none"
    /\ lastArg = 0
    /\ calls = 0

\* The states in which the scaling of the samples is examined: a player
\* built without loop and without thread, on any of the files, after a
\* first call set_volume(v) with v any of the 13 levels.
InitScale ==
    /\ pwm_mode \in BOOLEAN
    /\ loop = FALSE
    /\ threading = FALSE
    /\ sampwidth \in {1, 2}
    /\ nframes \in 0 .. MaxFrames
    /\ phase \in 0 .. (Len(Samples16) - 1)
    /\ InitFields
    /\ volume \in 0 .. 12
    /\ lastOp = "set_volume"
    /\ lastArg = volume
    /\ calls = 1

\* ------------------------------------------------------------- controller
\* Without a thread the engine runs inside play(): the caller is blocked
\* until _play8/_play16 returns or raises.
Blocked == ~threading /\ Active(1)

\* The caller can issue its next call.
CanCall == calls < MaxCalls /\ ~Blocked

\* What every controller call records: the call, its argument, the volume
\* level it found and the exception it raised.
Called(op, arg, e) ==
    /\ lastOp' = op
    /\ lastArg' = arg
    /\ prevVolume' = volume
    /\ err' = e
    /\ calls' = calls + 1

\* begin(): opens the file, derives the output width, configures the PWM
\* timer channel or the DAC, reads the frame count.  One begin per session.
Begin ==
    /\ CanCall
    /\ ~ready
    /\ soundpos' = 0
    /\ adatawidth' = IF sampwidth > 1 THEN 12 ELSE 8
    /\ pwm_out' = pwm_mode
    /\ dac' = ~pwm_mode
    /\ dacMode' = IF pwm_mode THEN dacMode ELSE "direct"
    /\ total_frames' = nframes
    /\ framerate' = FileRate
    /\ ready' = TRUE
    /\ Called("begin", 0, "none")
    /\ UNCHANGED <<cfgVars, buffersize, volume, fstop, framedata, engVars,
                   dmaBuf, lastWrite, runVars>>

\* volume_up with the test of the upper end dropped
UpLevel_unguarded(level) == level + 1

\* "if self.volume < 12: self.volume += 1"
UpLevel(level) == IF level < 12 THEN level + 1 ELSE level

\* "if self.volume > 0: self.volume -= 1"
DownLevel(level) == IF level > 0 THEN level - 1 ELSE level

\* set_volume that clamps an out-of-range request to the nearest end
SetLevel_clamped(level, v) == IF v < 0 THEN 0 ELSE IF v > 12 THEN 12 ELSE v

\* "if 0 <= v <= 12: self.volume = v"
SetLevel(level, v) == IF 0 <= v /\ v <= 12 THEN v ELSE level

\* volume_up()
VolumeUp ==
    /\ CanCall
    /\ volume' = UpLevel(volume)
    /\ Called("volume_up", 0, "none")
    /\ UNCHANGED <<cfgVars, ctlVars, fstop, framedata, soundpos, engVars,
                   hwVars, runVars>>

\* volume_down()
VolumeDown ==
    /\ CanCall
    /\ volume' = DownLevel(volume)
    /\ Called("volume_down", 0, "none")
    /\ UNCHANGED <<cfgVars, ctlVars, fstop, framedata, soundpos, engVars,
                   hwVars, runVars>>

\* set_volume(v)
SetVolume(v) ==
    /\ CanCall
    /\ volume' = SetLevel(volume, v)
    /\ Called("set_volume", v, "none")
    /\ UNCHANGED <<cfgVars, ctlVars, fstop, framedata, soundpos, engVars,
                   hwVars, runVars>>

\* play() and stop() without their first line
NotReady_ignored == FALSE

\* "if not(self.ready): return"
NotReady == ~ready

\* An execution context for the engine play() starts: the caller's own
\* (slot 1) without a thread, otherwise the first context not running.
FreeEngines == {e \in Engines : ~Active(e)}
NewEngine == IF threading THEN CHOOSE e \in FreeEngines : \A f \in FreeEngines : e <= f
             ELSE 1

\* play() in loop mode: reads total_frames frames at the cursor into
\* framedata and hands them to the DAC's circular transfer; self.dac is
\* None when begin() configured the PWM output.
PlayLoop ==
    LET data == ReadFrames(soundpos, total_frames, nframes) IN
    /\ fstop' = FALSE
    /\ framedata' = data
    /\ soundpos' = soundpos + data.len
    /\ IF dac
       THEN /\ dacMode' = "circular"
            /\ dmaBuf' = data
            /\ Called("play", 0, "none")
       ELSE /\ UNCHANGED <<dacMode, dmaBuf>>
            /\ Called("play", 0, "AttributeError")
    /\ UNCHANGED stopReq
    /\ UNCHANGED <<engVars, lastWrite, firstRun, nWrites, nRead, wAfter,
                   snapLevel, wStale>>

\* play() in non-loop mode: clears fstop and enters _play8 or _play16, in
\* the caller or in a new thread; the engine starts at its first loop head
\* with position = buffersize.
PlayStream ==
    LET e == NewEngine IN
    /\ fstop' = FALSE
    /\ pc' = [pc EXCEPT ![e] = "check"]
    /\ position' = [position EXCEPT ![e] = buffersize]
    /\ buf' = [buf EXCEPT ![e] = NoData]
    /\ divisor' = [divisor EXCEPT ![e] = 0]
    /\ idx' = [idx EXCEPT ![e] = 0]
    /\ firstRun' = [firstRun EXCEPT ![e] = ~played]
    /\ nWrites' = [nWrites EXCEPT ![e] = 0]
    /\ nRead' = [nRead EXCEPT ![e] = 0]
    /\ wAfter' = [wAfter EXCEPT ![e] = 0]
    /\ snapLevel' = [snapLevel EXCEPT ![e] = 0]
    /\ wStale' = [wStale EXCEPT ![e] = FALSE]
    /\ stopReq' = [f \in Engines |->
                     IF f = e THEN "none"
                     ELSE IF Active(f) /\ stopReq[f] = "pending" THEN "voided"
                     ELSE stopReq[f]]
    /\ Called("play", 0, "none")
    /\ UNCHANGED <<framedata, soundpos, hwVars>>

\* play() that takes the frames left after the cursor as the frame count
Play_recount ==
    /\ CanCall
    /\ threading /\ ~loop /\ ready => FreeEngines # {}
    /\ played' = (played \/ ready)
    /\ IF NotReady
       THEN /\ Called("play", 0, "none")
            /\ UNCHANGED <<fstop, framedata, soundpos, engVars, hwVars,
                           firstRun, nWrites, nRead, stopReq, wAfter,
                           snapLevel, wStale>>
       ELSE IF loop THEN PlayLoop ELSE PlayStream
    /\ total_frames' = IF ready THEN nframes - soundpos ELSE total_frames
    /\ UNCHANGED <<cfgVars, ready, adatawidth, pwm_out, dac, framerate,
                   buffersize, volume>>

\* play()
Play ==
    /\ CanCall
    /\ threading /\ ~loop /\ ready => FreeEngines # {}
    /\ played' = (played \/ ready)
    /\ IF NotReady
       THEN /\ Called("play", 0, "none")
            /\ UNCHANGED <<fstop, framedata, soundpos, engVars, hwVars,
                           firstRun, nWrites, nRead, stopReq, wAfter,
                           snapLevel, wStale>>
       ELSE IF loop THEN PlayLoop ELSE PlayStream
    /\ UNCHANGED <<cfgVars, ctlVars, volume>>

\* stop(): sets fstop; in loop mode writes 0 to the DAC, which ends the
\* circular transfer (self.dac is None when the PWM output is configured).
Stop ==
    /\ CanCall
    /\ IF NotReady
       THEN /\ Called("stop", 0, "none")
            /\ UNCHANGED <<fstop, hwVars, stopReq>>
       ELSE /\ fstop' = TRUE
            /\ stopReq' = [e \in Engines |->
                             IF Active(e) /\ stopReq[e] = "none" THEN "pending"
                             ELSE stopReq[e]]
            /\ IF ~loop
               THEN /\ Called("stop", 0, "none")
                    /\ UNCHANGED hwVars
               ELSE IF dac
               THEN /\ dacMode' = "direct"
                    /\ dmaBuf' = NoData
                    /\ lastWrite' = [dev |-> "dac", val |-> 0, frame |-> -1, level |-> 0]
                    /\ Called("stop", 0, "none")
               ELSE /\ Called("stop", 0, "AttributeError")
                    /\ UNCHANGED hwVars
    /\ UNCHANGED <<cfgVars, ctlVars, volume, framedata, soundpos, engVars,
                   played, firstRun, nWrites, nRead, wAfter, snapLevel,
                   wStale>>

\* ----------------------------------------------------------------- engine
\* Locals of a context whose engine has returned or raised.
Finish(e, how) ==
    /\ pc' = [pc EXCEPT ![e] = how]
    /\ position' = [position EXCEPT ![e] = 0]
    /\ buf' = [buf EXCEPT ![e] = NoData]
    /\ divisor' = [divisor EXCEPT ![e] = 0]
    /\ idx' = [idx EXCEPT ![e] = 0]

\* a loop head that never sees the stop flag
StopRequested_never == FALSE

\* "if self.fstop" at the loop head
StopRequested == fstop

\* a range that starts at 0, so that a chunk is played whenever a frame of
\* the file lies before position
RangeDone_fromZero(p) == p - buffersize >= total_frames

\* range(self.buffersize, self.total_frames, self.buffersize) has no value
\* left once position has reached total_frames
RangeDone(p) == p >= total_frames

\* Loop head of _play8/_play16 and the read of the chunk: the loop ends when
\* the range is exhausted; otherwise "if self.fstop: return"; otherwise
\* self.framedata = self.audiofile.readframes(self.buffersize).
EngineCheck(e) ==
    LET data == ReadFrames(soundpos, buffersize, nframes) IN
    /\ pc[e] = "check"
    /\ IF RangeDone(position[e]) \/ StopRequested
       THEN /\ Finish(e, IF RangeDone(position[e]) THEN "exhausted" ELSE "stopped")
            /\ UNCHANGED <<framedata, soundpos, nRead>>
       ELSE /\ framedata' = data
            /\ soundpos' = soundpos + data.len
            /\ nRead' = [nRead EXCEPT ![e] = @ + data.len]
            /\ pc' = [pc EXCEPT ![e] = "copy"]
            /\ UNCHANGED <<position, buf, divisor, idx>>
    /\ UNCHANGED <<cfgVars, ctlVars, volume, fstop, hwVars, callVars, err,
                   played, firstRun, nWrites, stopReq, wAfter, snapLevel,
                   wStale>>

\* buf = array.array('B' or 'h', self.framedata): the local copy of whatever
\* self.framedata holds now
EngineCopy(e) ==
    /\ pc[e] = "copy"
    /\ buf' = [buf EXCEPT ![e] = framedata]
    /\ pc' = [pc EXCEPT ![e] = "setpos"]
    /\ UNCHANGED <<cfgVars, ctlVars, volume, fstop, framedata, soundpos,
                   position, divisor, idx, hwVars, histVars>>

\* self.audiofile.setpos(position), then
\* volume = self.volumes[self.volume], scaled by 128 or 16 in _play16
EngineSetpos(e) ==
    /\ pc[e] = "setpos"
    /\ soundpos' = position[e]
    /\ divisor' = [divisor EXCEPT ![e] =
                     IF adatawidth = 8 THEN Divisor8(volume)
                     ELSE Divisor16(volume, pwm_out)]
    /\ idx' = [idx EXCEPT ![e] = 0]
    /\ pc' = [pc EXCEPT ![e] = "write"]
    /\ snapLevel' = [snapLevel EXCEPT ![e] = volume]
    /\ UNCHANGED <<cfgVars, ctlVars, volume, fstop, framedata, position, buf,
                   hwVars, callVars, err, played, firstRun, nWrites, nRead,
                   stopReq, wAfter, wStale>>

\* value the engine writes for sample s
OutValue(s, d) ==
    IF adatawidth = 8 THEN Sample8(s, d) ELSE Sample16(s, d, pwm_out)

\* the divisor _play8 or _play16 computes for a volume level
LevelDivisor(level) ==
    IF adatawidth = 8 THEN Divisor8(level) ELSE Divisor16(level, pwm_out)

\* the value _play8 or _play16 writes for sample s at a volume level
WriteAt(s, level) == OutValue(s, LevelDivisor(level))

\* an inner loop that looks the divisor up again at every sample
WriteDivisor_live(e) == LevelDivisor(volume)

\* the inner loop divides by the local "volume" set before it
WriteDivisor(e) == divisor[e]

\* One pass of "for i in range(self.buffersize)": buf[i] raises IndexError
\* when the read returned fewer than i + 1 frames; otherwise the sample is
\* written to the PWM channel or the DAC.  After the last pass the outer
\* loop advances position by buffersize.
EngineWrite(e) ==
    /\ pc[e] = "write"
    /\ IF idx[e] >= buf[e].len
       THEN /\ Finish(e, "error")
            /\ err' = IF threading THEN err ELSE "IndexError"
            /\ UNCHANGED <<hwVars, nWrites, wAfter, wStale>>
       ELSE /\ lastWrite' = [dev |-> IF pwm_out THEN "pwm" ELSE "dac",
                             val |-> OutValue(FrameAt(buf[e].start + idx[e]), WriteDivisor(e)),
                             frame |-> buf[e].start + idx[e],
                             level |-> snapLevel[e]]
            /\ wStale' = [wStale EXCEPT ![e] = @ \/ volume # snapLevel[e]]
            /\ nWrites' = [nWrites EXCEPT ![e] = @ + 1]
            /\ wAfter' = [wAfter EXCEPT ![e] = IF stopReq[e] = "none" THEN @ ELSE @ + 1]
            /\ IF idx[e] + 1 < buffersize
               THEN /\ idx' = [idx EXCEPT ![e] = @ + 1]
                    /\ UNCHANGED <<pc, position>>
               ELSE /\ idx' = [idx EXCEPT ![e] = 0]
                    /\ pc' = [pc EXCEPT ![e] = "check"]
                    /\ position' = [position EXCEPT ![e] = @ + buffersize]
            /\ UNCHANGED <<buf, divisor, dacMode, dmaBuf, err>>
    /\ UNCHANGED <<cfgVars, ctlVars, volume, fstop, framedata, soundpos,
                   callVars, played, firstRun, nRead, stopReq, snapLevel>>

Next ==
    \/ Play
    \/ Stop
    \/ \E e \in Engines : EngineCheck(e)
    \/ \E e \in Engines : EngineCopy(e)
    \/ \E e \in Engines : EngineSetpos(e)
    \/ \E e \in Engines : EngineWrite(e)
    \/ Begin
    \/ VolumeUp
    \/ VolumeDown
    \/ \E v \in VolumeInputs : SetVolume(v)

Spec == Init /\ [][Next]_vars

\* the same program started in the states of InitScale
SpecScale == InitScale /\ [][Next]_vars

\* ------------------------------------------------------------------ claims

\* C1: in non-loop mode, an engine that was running when stop() was called,
\* with no play() since, starts no further chunk: at its next loop head it
\* returns without reading, and it has written at most buffersize samples
\* since that stop().
C1_StopEndsAtChunk ==
    [][\A e \in Engines :
          (stopReq[e] = "pending" /\ stopReq'[e] = "pending") =>
              /\ (pc[e] = "check" /\ pc'[e] # "check") =>
                     /\ pc'[e] \in {"stopped", "exhausted"}
                     /\ nRead'[e] = nRead[e]
                     /\ soundpos' = soundpos
              /\ wAfter'[e] <= buffersize]_vars

\* C1 witness: an engine returned at the stop flag after writing the rest
\* of the chunk it was in when stop() was called.
C1_Witness ==
    \E e \in Engines :
        /\ pc[e] = "stopped"
        /\ stopReq[e] = "pending"
        /\ wAfter[e] >= 1

\* C2: for an 8-bit file of exactly 2 * buffersize frames, the run of the
\* first play(), never stopped, ends having issued exactly 2 * buffersize
\* writes and having read at most total_frames frames.
C2_TwoChunksWritten ==
    \A e \in Engines :
        ( /\ ~loop
          /\ sampwidth = 1
          /\ total_frames = 2 * buffersize
          /\ firstRun[e]
          /\ stopReq[e] = "none"
          /\ pc[e] = "exhausted" )
        => (nWrites[e] = 2 * buffersize /\ nRead[e] <= total_frames)

\* C3: in thread mode at most one streaming engine is active.
C3_OneEngine == threading => Cardinality(ActiveEngines) <= 1

\* C4: an engine that was running when stop() was called returns at its next
\* loop head, whatever the controller was asked in between.
C4_StopAlwaysObserved ==
    [][\A e \in Engines :
          (stopReq[e] \in {"pending", "voided"} /\ pc[e] = "check" /\ pc'[e] # "check")
              => pc'[e] \in {"stopped", "exhausted"}]_vars

\* C5: every value written to the PWM channel lies in 0 .. 255.
C5_PwmRange == lastWrite.dev = "pwm" => lastWrite.val \in 0 .. 255

\* C6: in non-loop mode every chunk read is issued with the cursor at least
\* buffersize frames before the end of the file, and the cursor never
\* exceeds total_frames (stated for the engine run by the caller itself,
\* where no second engine moves the cursor).
C6_NoReadPastEnd ==
    /\ ready => soundpos <= total_frames
    /\ (~threading /\ pc[1] = "copy") =>
           framedata.start + buffersize <= total_frames

\* C7: an engine whose read returned fewer than buffersize samples writes
\* them and goes on without raising (stated for the engine run by the
\* caller itself, where the short read is the engine's own).
C7_ShortReadNoError ==
    ~threading => (pc[1] # "error" /\ err # "IndexError")

\* C8: in loop mode the buffer of every circular transfer play() starts
\* holds all total_frames frames of the file.
C8_LoopWholeBuffer ==
    dacMode = "circular" => (dmaBuf.start = 0 /\ dmaBuf.len = total_frames)

\* C9: with loop set, play() after begin() starts the circular transfer and
\* stop() halts it, without an error, whatever pwm is.
C9_LoopAnyPwm ==
    (ready /\ loop) =>
        /\ lastOp = "play" => (err = "none" /\ dacMode = "circular")
        /\ lastOp = "stop" => (err = "none" /\ dacMode # "circular")

\* C10: the volume level is always in 0 .. 12; volume_up() at level 12 and
\* volume_down() at level 0 leave it unchanged.
C10_VolumeRange ==
    /\ volume \in 0 .. 12
    /\ (lastOp = "volume_up" /\ prevVolume = 12) => volume = 12
    /\ (lastOp = "volume_down" /\ prevVolume = 0) => volume = 0

\* C10 witness: volume_up() was called at level 12.
C10_Witness == lastOp = "volume_up" /\ prevVolume = 12 /\ volume = 12
\* C11: set_volume(v) with v outside 0 .. 12 leaves the level and every
\* other field as they were and raises nothing; with v in 0 .. 12 the level
\* becomes v (and nothing else changes).
C11_SetVolumeEffect ==
    [][(calls' = calls + 1 /\ lastOp' = "set_volume") =>
          /\ volume' = IF lastArg' \in 0 .. 12 THEN lastArg' ELSE volume
          /\ err' = "none"
          /\ UNCHANGED <<ctlVars, fstop, framedata, soundpos, engVars, hwVars>>]_vars

\* C11 witness: set_volume was called with a value beyond 12 at a level
\* below 12, and the level is what it was.
C11_Witness ==
    /\ lastOp = "set_volume"
    /\ lastArg > 12
    /\ prevVolume < 12
    /\ volume = prevVolume
\* C12: every value an engine writes is computed with the divisor of the
\* level it read at the start of the chunk, whatever the level is by then;
\* the snapshot does not change while the chunk is written, and no engine
\* step changes the volume level.
C12_VolumeAtChunkStart ==
    [][/\ \A e \in Engines :
            /\ nWrites'[e] = nWrites[e] + 1 =>
                   lastWrite'.val = OutValue(FrameAt(lastWrite'.frame),
                                             LevelDivisor(snapLevel[e]))
            /\ (pc[e] = "write" /\ pc'[e] = "write") =>
                   (snapLevel'[e] = snapLevel[e] /\ divisor'[e] = divisor[e])
       /\ calls' = calls => volume' = volume]_vars

\* C12 witness: an engine wrote a sample while the volume level differed
\* from the level it had read at the start of the chunk.
C12_Witness == \E e \in Engines : wStale[e] /\ nWrites[e] >= 1
\* C13: before begin() has completed, play() and stop() change no field of
\* the controller (stop flag, cursor, buffer included), start no engine and
\* no circular transfer, write nothing and raise nothing.
C13_NoOpBeforeBegin ==
    [][(~ready /\ calls' = calls + 1 /\ lastOp' \in {"play", "stop"}) =>
          /\ UNCHANGED <<ctlVars, volume, fstop, framedata, soundpos, engVars,
                         hwVars>>
          /\ err' = "none"]_vars

\* C13 witness: play() or stop() has been called on a player not begun.
C13_Witness == ~ready /\ lastOp \in {"play", "stop"}
\* C14: in non-loop mode with total_frames < buffersize no engine reads a
\* chunk or writes a sample: a started engine is at its first loop head or
\* has left the loop there, the cursor is where begin() left it and nothing
\* has been written.
C14_ShortFileSilent ==
    (ready /\ ~loop /\ total_frames < buffersize) =>
        /\ \A e \in Engines :
              /\ nWrites[e] = 0
              /\ nRead[e] = 0
              /\ pc[e] \in {"idle", "check", "exhausted"}
        /\ soundpos = 0
        /\ lastWrite = NoWrite

\* C14 witness: play() ran an engine to its end on a file that has frames,
\* but fewer than buffersize.
C14_Witness ==
    /\ ready /\ ~loop
    /\ 0 < total_frames /\ total_frames < buffersize
    /\ \E e \in Engines : pc[e] = "exhausted"
\* C15: in non-loop mode, when total_frames is not a multiple of
\* buffersize, no frame of the trailing total_frames mod buffersize frames
\* is ever written (stated for the engine run by the caller itself).
C15_TailNeverWritten ==
    (~loop /\ ~threading /\ total_frames % buffersize # 0 /\ lastWrite.frame >= 0)
        => lastWrite.frame < total_frames - (total_frames % buffersize)

\* C16: the value written for a sample at a higher volume level is never
\* smaller than the value written for it at a lower level.
C16_Monotone ==
    lastWrite.frame >= 0 =>
        \A v \in 0 .. 12 :
            /\ v > lastWrite.level =>
                   WriteAt(FrameAt(lastWrite.frame), v) >= lastWrite.val
            /\ v < lastWrite.level =>
                   WriteAt(FrameAt(lastWrite.frame), v) <= lastWrite.val

\* C16 as amended: for a sample that is not negative the value written
\* does not decrease as the volume level rises; for a negative sample (16-bit
\* files) it does not increase.
C16_SwingMonotone ==
    lastWrite.frame >= 0 =>
        LET s == FrameAt(lastWrite.frame) IN
        \A v \in 0 .. 12 :
            /\ (v > lastWrite.level /\ s >= 0) => WriteAt(s, v) >= lastWrite.val
            /\ (v < lastWrite.level /\ s >= 0) => WriteAt(s, v) <= lastWrite.val
            /\ (v > lastWrite.level /\ s < 0) => WriteAt(s, v) <= lastWrite.val
            /\ (v < lastWrite.level /\ s < 0) => WriteAt(s, v) >= lastWrite.val

\* C16 witness: a negative sample was written at level 0, and the value for
\* it at level 12 is smaller.
C16_Witness ==
    /\ lastWrite.frame >= 0
    /\ FrameAt(lastWrite.frame) < 0
    /\ lastWrite.level = 0
    /\ WriteAt(FrameAt(lastWrite.frame), 12) < lastWrite.val
\* C17: a non-loop run that no stop request ends leaves the loop by
\* exhaustion, after fewer than total_frames / buffersize + 1 chunks; without
\* a thread play() has returned only when no engine is running (stated for
\* the engine run by the caller itself, which no stop() can reach).
C17_EndsByExhaustion ==
    (~threading /\ ready /\ ~loop) =>
        /\ pc[1] \in {"stopped", "exhausted", "error"} =>
              /\ pc[1] = "exhausted"
              /\ nWrites[1] < total_frames + buffersize
        /\ (lastOp = "play" /\ ~Active(1)) => err = "none"

\* C18: every value written to the DAC lies in the range of the bits the
\* DAC was opened with: 0 .. 4095 for a 16-bit file (12 bits), 0 .. 255 for
\* an 8-bit file (8 bits).
C18_DacRange ==
    lastWrite.dev = "dac" => lastWrite.val \in 0 .. (2 ^ adatawidth - 1)

\* C18 witness: the lowest 16-bit sample was written to the 12-bit DAC at
\* volume level 12, where the divisor is smallest.
C18_Witness ==
    /\ lastWrite.dev = "dac"
    /\ adatawidth = 12
    /\ lastWrite.level = 12
    /\ lastWrite.frame >= 0
    /\ FrameAt(lastWrite.frame) = -32768
    /\ lastWrite.val = 0

\* C19: once begin() has completed, no call and no engine step changes the
\* effective sample width, the frame rate, total_frames, buffersize or the
\* output selected (PWM channel or DAC).
C19_ConfigFrozen ==
    [][ready => /\ ready'
                /\ UNCHANGED <<adatawidth, framerate, total_frames, buffersize,
                               pwm_out, dac>>]_vars

\* C19 witness: after begin() a run has written samples and a later call
\* was made, and the configuration is the one begin() set.
C19_Witness ==
    /\ ready
    /\ lastOp \in {"play", "stop", "volume_up", "volume_down", "set_volume"}
    /\ \E e \in Engines : pc[e] \in {"stopped", "exhausted"} /\ nWrites[e] >= 1
    /\ total_frames = nframes /\ framerate = FileRate /\ pwm_out = pwm_mode

\* C20: in a non-loop run with a single engine the chunk processed in the
\* iteration with position p holds the frames p - buffersize .. p - 1 of the
\* file (stated for the engine run by the caller itself).
C20_ChunkInOrder ==
    (~threading /\ pc[1] \in {"setpos", "write"}) =>
        buf[1].start = position[1] - buffersize
====
